---- MODULE Spec2Model ----
(***************************************************************************)
(* The learning core of the DQN and EQRC agents: the update() handler of   *)
(* each agent with its step counter, replay buffer, update cadence and     *)
(* target refresh, and the target computations of q_loss and qc_loss.      *)
(*                                                                         *)
(* Parameters and optimizer state are opaque pytrees in the source; the    *)
(* model names each value by the number of gradient steps that produced    *)
(* it (the optimizer's own step count), so two parameter values are equal  *)
(* exactly when they come from the same update.                            *)
(***************************************************************************)
EXTENDS Integers, Sequences, FiniteSets, TLC

\* ------------------------------------------------------------------ bounds
MaxSteps == 5
MaxBufferSize == 3
MaxBatch == 2
MaxFreq == 2
MaxRefresh == 3
NumActions == 3

\* ---------------------------------------------------------------- numbers
\* A float is a fraction <<numerator, denominator>>: the denominator is
\* positive for a finite value and <<0, 0>> is NaN, the value of 0/0.
\* Sums and products are those of fractions, so NaN propagates through
\* both (0 * NaN is NaN); comparisons with NaN are false. Fractions are
\* kept in lowest terms.
Abs(n) == IF n < 0 THEN -n ELSE n

RECURSIVE GCD(_, _)
GCD(a, b) == IF b = 0 THEN a ELSE GCD(b, a % b)

Rat(n, d) ==
    IF d = 0 THEN <<0, 0>>
    ELSE LET g == GCD(Abs(n), d) IN <<n \div g, d \div g>>
NaN == Rat(0, 0)
IsNaN(p) == p[2] = 0
RatAdd(p, q) == Rat(p[1] * q[2] + q[1] * p[2], p[2] * q[2])
RatMul(p, q) == Rat(p[1] * q[1], p[2] * q[2])
RatEq(p, q) == ~IsNaN(p) /\ ~IsNaN(q) /\ p[1] * q[2] = q[1] * p[2]
RatLeq(p, q) == ~IsNaN(p) /\ ~IsNaN(q) /\ p[1] * q[2] <= q[1] * p[2]

\* ------------------------------------------------------------ input domains
\* observations a caller passes: a non-zero one and an undefined one (the
\* all-zero observation is Rat(0, 1))
Obs == {Rat(1, 1), NaN}
Rewards == {0, 1}
\* gamma: 0 marks a terminal transition
Discounts == {0, 1}
Actions == 0 .. (NumActions - 1)
QVals == {Rat(-1, 1), Rat(0, 1), Rat(1, 1)}
QVectors == [Actions -> QVals]
QInputs == [Actions -> QVals \cup {NaN}]
Epsilons == {Rat(0, 1), Rat(1, 10), Rat(1, 2), Rat(1, 1)}

VARIABLES
    agent,          \* "DQN" or "EQRC": which class was constructed
    buffer_size,    \* params['buffer_size']
    batch_size,     \* params['batch']
    update_freq,    \* params.get('update_freq', 1)
    target_refresh, \* params.get('target_refresh', 1) (DQN only)
    steps,          \* self.steps
    buffer,         \* self.buffer, the replay Table
    net_params,     \* self.net_params (DQN) / self.params (EQRC)
    opt_state,      \* self.opt_state
    target_params,  \* self.target_params (DQN only)
    call,           \* what the most recent update() call did
    hist,           \* counts of executed network updates and refreshes
    lossIn,         \* arguments of a loss evaluation
    lossOut         \* its intermediate results

vars == <<agent, buffer_size, batch_size, update_freq, target_refresh, steps,
          buffer, net_params, opt_state, target_params, call, hist,
          lossIn, lossOut>>

agentVars == <<agent, buffer_size, batch_size, update_freq, target_refresh,
               steps, buffer, net_params, opt_state, target_params, call, hist>>

\* ------------------------------------------------------------------ values
InitParams == 0
InitOptState == 0
NoTarget == -1
NoCall == [sampled |-> FALSE, occ |-> 0, updated |-> FALSE,
           refreshed |-> FALSE, xp |-> Rat(0, 1)]
NoHist == [updates |-> 0, last |-> 0, gap |-> 0]
NoLoss == [kind |-> "none"]

Min(a, b) == IF a <= b THEN a ELSE b

\* ------------------------------------------------------------ replay Table
\* Fixed-capacity ring: rows in slot order, idx the number of tuples added.
Table(max_size) == [max_size |-> max_size, rows |-> <<>>, idx |-> 0]

addTuple(tb, t) ==
    LET slot == (tb.idx % tb.max_size) + 1
    IN [tb EXCEPT !.rows = IF Len(tb.rows) < tb.max_size
                           THEN Append(tb.rows, t)
                           ELSE [tb.rows EXCEPT ![slot] = t],
                  !.idx = tb.idx + 1]

TableLen(tb) == Len(tb.rows)

\* sample(n): the possible draws, n row indices taken with replacement from
\* the valid rows; no draw is possible when the table holds nothing.
sample(tb, n) == [1 .. n -> 1 .. TableLen(tb)]

\* the tuple handed to addTuple; n is the identity of the inserted tuple
\* (the ordinal of the insertion)
Transition(x, a, xp, r, gamma, n) ==
    [x |-> x, a |-> a, xp |-> xp, r |-> r, gamma |-> gamma, n |-> n]

\* --------------------------------------------------------- update handler
\* The rows sample() draws feed only _computeUpdate, whose result is opaque
\* here; a call records that it sampled and the occupancy it sampled at.
zeros_like(x) == Rat(0, 1)

StoredNextObsRaw(x, xp, gamma) == xp

\* if gamma is zero, we have a terminal state
StoredNextObs(x, xp, gamma) == IF gamma = 0 THEN zeros_like(x) ELSE xp

StoreTransitionNonTerminal(buf, x, a, xp, r, gamma, n) ==
    IF gamma = 0 THEN buf ELSE addTuple(buf, Transition(x, a, xp, r, gamma, n))

\* always add to the buffer
StoreTransition(buf, x, a, xp, r, gamma, n) ==
    addTuple(buf, Transition(x, a, xp, r, gamma, n))

OffCadenceNever(st, uf) == FALSE

\* only update every `update_freq` steps
OffCadence(st, uf) == st % uf # 0

BufferReadyAtBatch(buf, batch) == TableLen(buf) >= batch

BufferReadyWhenFull(buf, batch) == TableLen(buf) >= buf.max_size

\* skip updates while the buffer holds no more than a batch
BufferReady(buf, batch) == TableLen(buf) > batch

RefreshAlways(st, tr) == TRUE

RefreshDue(st, tr) == st % tr = 0

\* _computeUpdate: one optimizer step; a new parameter value and a new
\* optimizer state
computeUpdate(params, opt) == [params |-> params + 1, state |-> opt + 1]

DQN_updateNetworkKeepOpt(np, os, tp, st, tr) ==
    LET u == computeUpdate(np, os)
    IN [net_params |-> u.params, opt_state |-> os,
        target_params |-> IF RefreshDue(st, tr) THEN u.params ELSE tp,
        refreshed |-> RefreshDue(st, tr)]

DQN_updateNetworkStaleTarget(np, os, tp, st, tr) ==
    LET u == computeUpdate(np, os)
    IN [net_params |-> u.params, opt_state |-> u.state,
        target_params |-> IF RefreshDue(st, tr) THEN np ELSE tp,
        refreshed |-> RefreshDue(st, tr)]

\* updateNetwork: the new params and optimizer state are bound, and the
\* target is bound to the new params when the step counter is a multiple of
\* target_refresh (refreshed says whether that assignment ran)
DQN_updateNetwork(np, os, tp, st, tr) ==
    LET u == computeUpdate(np, os)
    IN [net_params |-> u.params, opt_state |-> u.state,
        target_params |-> IF RefreshDue(st, tr) THEN u.params ELSE tp,
        refreshed |-> RefreshDue(st, tr)]

EQRC_updateNetwork(np, os) ==
    LET u == computeUpdate(np, os)
    IN [net_params |-> u.params, opt_state |-> u.state]

\* bookkeeping of executed updates: gap is the number of network updates
\* between the two most recent target refreshes (0 while fewer than two)
HistAfter(h, ran, refreshed) ==
    IF ~ran THEN h
    ELSE LET u == h.updates + 1
         IN IF refreshed
            THEN [updates |-> u, last |-> u,
                  gap |-> IF h.last = 0 THEN 0 ELSE u - h.last]
            ELSE [h EXCEPT !.updates = u]

DQN_update(x, a, xp, r, gamma) ==
    /\ agent = "DQN"
    /\ steps < MaxSteps
    /\ LET st == steps + 1
           xp1 == StoredNextObs(x, xp, gamma)
           buf == StoreTransition(buffer, x, a, xp1, r, gamma, st)
           run == ~OffCadence(st, update_freq) /\ BufferReady(buf, batch_size)
           new == DQN_updateNetwork(net_params, opt_state, target_params,
                                    st, target_refresh)
           refreshed == run /\ new.refreshed
       IN /\ steps' = st
          /\ buffer' = buf
          /\ net_params' = IF run THEN new.net_params ELSE net_params
          /\ opt_state' = IF run THEN new.opt_state ELSE opt_state
          /\ target_params' = IF run THEN new.target_params ELSE target_params
          /\ call' = [sampled |-> run, occ |-> TableLen(buf), updated |-> run,
                      refreshed |-> refreshed, xp |-> xp]
          /\ hist' = HistAfter(hist, run, refreshed)
    /\ UNCHANGED <<agent, buffer_size, batch_size, update_freq, target_refresh,
                   lossIn, lossOut>>

EQRC_update(x, a, xp, r, gamma) ==
    /\ agent = "EQRC"
    /\ steps < MaxSteps
    /\ LET st == steps + 1
           xp1 == StoredNextObs(x, xp, gamma)
           buf == StoreTransition(buffer, x, a, xp1, r, gamma, st)
           run == ~OffCadence(st, update_freq) /\ BufferReady(buf, batch_size)
           new == EQRC_updateNetwork(net_params, opt_state)
       IN /\ steps' = st
          /\ buffer' = buf
          /\ net_params' = IF run THEN new.net_params ELSE net_params
          /\ opt_state' = IF run THEN new.opt_state ELSE opt_state
          /\ call' = [sampled |-> run, occ |-> TableLen(buf), updated |-> run,
                      refreshed |-> FALSE, xp |-> xp]
          /\ hist' = HistAfter(hist, run, FALSE)
    /\ UNCHANGED <<agent, buffer_size, batch_size, update_freq, target_refresh,
                   target_params, lossIn, lossOut>>

\* ------------------------------------------------------- loss computations
RECURSIVE SumTo(_, _)
SumTo(v, n) == IF n < 0 THEN 0 ELSE v[n] + SumTo(v, n - 1)
\* sum of an integer vector over the actions
VecSum(v) == SumTo(v, NumActions - 1)

RECURSIVE RatSumTo(_, _)
RatSumTo(v, n) == IF n < 0 THEN Rat(0, 1) ELSE RatAdd(v[n], RatSumTo(v, n - 1))
\* sum of a vector of floats over the actions
RatVecSum(v) == RatSumTo(v, NumActions - 1)

\* max(): NaN when an entry is NaN
VecMax(v) ==
    IF \E i \in DOMAIN v : IsNaN(v[i]) THEN NaN
    ELSE CHOOSE m \in {v[i] : i \in DOMAIN v} : \A i \in DOMAIN v : RatLeq(v[i], m)

\* the action values the network gives for an observation: finite for a
\* finite observation (the parameters are finite), NaN for an undefined one
NetValues(obs) ==
    IF IsNaN(obs) THEN {[i \in Actions |-> NaN]} ELSE QVectors

\* q_loss: target = r + gamma * qp.max()
q_target(r, gamma, qp) == RatAdd(r, RatMul(gamma, VecMax(qp)))

argmax_first_index(preferences) ==
    LET mx == VecMax(preferences)
        hit(i) == IF IsNaN(mx) THEN IsNaN(preferences[i])
                  ELSE RatEq(preferences[i], mx)
        first == CHOOSE i \in DOMAIN preferences :
                    hit(i) /\ \A j \in DOMAIN preferences : hit(j) => i <= j
    IN [i \in DOMAIN preferences |-> Rat(IF i = first THEN 1 ELSE 0, 1)]

\* _argmax_with_random_tie_breaking: the indicator of the entries equal to
\* the maximum, divided by their number
argmax_with_random_tie_breaking(preferences) ==
    LET mx == VecMax(preferences)
        optimal_actions == [i \in DOMAIN preferences |->
                               IF RatEq(preferences[i], mx) THEN 1 ELSE 0]
    IN [i \in DOMAIN preferences |->
           Rat(optimal_actions[i], VecSum(optimal_actions))]

\* qc_loss: pi = (1.0 - epsilon) * pi + (epsilon / qtp1.shape[0])
qc_pi(qtp1, epsilon) ==
    LET pi == argmax_with_random_tie_breaking(qtp1)
    IN [i \in DOMAIN qtp1 |->
           RatAdd(RatMul(Rat(epsilon[2] - epsilon[1], epsilon[2]), pi[i]),
                  Rat(epsilon[1], epsilon[2] * NumActions))]

\* qc_loss: vtp1 = qtp1.dot(pi)
qc_vtp1(qtp1, epsilon) ==
    LET pi == qc_pi(qtp1, epsilon)
    IN RatVecSum([i \in DOMAIN qtp1 |-> RatMul(qtp1[i], pi[i])])

\* qc_loss: target = r + gamma * vtp1
qc_target(r, gamma, qtp1, epsilon) ==
    RatAdd(r, RatMul(gamma, qc_vtp1(qtp1, epsilon)))

\* one evaluation of q_loss on a sample
ApplyQLoss ==
    /\ lossIn.kind = "q"
    /\ lossOut = NoLoss
    /\ lossOut' = [kind |-> "q",
                   target |-> q_target(Rat(lossIn.r, 1), Rat(lossIn.gamma, 1),
                                       lossIn.qp)]
    /\ UNCHANGED <<agentVars, lossIn>>

\* one evaluation of qc_loss on a sample
ApplyQCLoss ==
    /\ lossIn.kind = "qc"
    /\ lossOut = NoLoss
    /\ lossOut' = [kind |-> "qc",
                   pi_star |-> argmax_with_random_tie_breaking(lossIn.qtp1),
                   pi |-> qc_pi(lossIn.qtp1, lossIn.epsilon),
                   vtp1 |-> qc_vtp1(lossIn.qtp1, lossIn.epsilon),
                   target |-> qc_target(Rat(lossIn.r, 1), Rat(lossIn.gamma, 1),
                                        lossIn.qtp1, lossIn.epsilon)]
    /\ UNCHANGED <<agentVars, lossIn>>

\* ---------------------------------------------------------- specification
InitAgent ==
    /\ agent \in {"DQN", "EQRC"}
    /\ buffer_size \in 1 .. MaxBufferSize
    /\ batch_size \in 1 .. MaxBatch
    /\ update_freq \in 1 .. MaxFreq
    /\ target_refresh \in (IF agent = "DQN" THEN 1 .. MaxRefresh ELSE {1})
    /\ steps = 0
    /\ buffer = Table(buffer_size)
    /\ net_params = InitParams
    /\ opt_state = InitOptState
    /\ target_params = (IF agent = "DQN" THEN InitParams ELSE NoTarget)
    /\ call = NoCall
    /\ hist = NoHist

Init ==
    /\ InitAgent
    /\ lossIn = NoLoss
    /\ lossOut = NoLoss

Next ==
    \E x \in {Rat(1, 1)}, a \in {0}, xp \in Obs, r \in Rewards,
       gamma \in Discounts :
        \/ DQN_update(x, a, xp, r, gamma)
        \/ EQRC_update(x, a, xp, r, gamma)

Spec == Init /\ [][Next]_vars

\* update() is called again and again. The calls carry one observation and
\* one reward and vary the discount: the gates of update() read the step
\* counter and the occupancy, never the transition.
NextLive ==
    \E x \in {Rat(1, 1)}, a \in {0}, xp \in {Rat(1, 1)}, r \in {1},
       gamma \in Discounts :
        \/ DQN_update(x, a, xp, r, gamma)
        \/ EQRC_update(x, a, xp, r, gamma)

SpecLive == Init /\ [][NextLive]_vars /\ WF_vars(NextLive)

\* the loss functions on arbitrary samples; the agent stays as constructed
\* with the default cadences
InitLoss ==
    /\ InitAgent
    /\ agent = "DQN"
    /\ buffer_size = 1
    /\ batch_size = 1
    /\ update_freq = 1
    /\ target_refresh = 1
    /\ lossIn \in [kind : {"q"}, r : Rewards, gamma : Discounts, qp : QInputs]
           \cup [kind : {"qc"}, r : Rewards, gamma : Discounts,
                 qtp1 : QInputs, epsilon : Epsilons]
    /\ lossOut = NoLoss

NextLoss == ApplyQLoss \/ ApplyQCLoss

SpecLoss == InitLoss /\ [][NextLoss]_vars

\* ------------------------------------------------------------------ claims
\* the gate as update() evaluates it, on the state a call leaves behind
GateOpen == steps % update_freq = 0 /\ TableLen(buffer) > batch_size

C2_TargetRefresh ==
    [][agent = "DQN" =>
        /\ (target_params' # target_params) <=>
               (/\ steps' % update_freq = 0
                /\ TableLen(buffer') > batch_size
                /\ steps' % target_refresh = 0)
        /\ (target_params' # target_params) => target_params' = net_params'
      ]_vars

\* C2 as claimed: target_params changes during a call if and only if steps,
\* after its increment, is a multiple of target_refresh, and then equals the
\* post-update net_params.
C2_Original ==
    [][agent = "DQN" =>
        /\ (target_params' # target_params) <=> (steps' % target_refresh = 0)
        /\ (target_params' # target_params) => target_params' = net_params'
      ]_vars

\* a refresh on a cadence slower than the update cadence, after an update
\* that left the target alone
C2_Witness ==
    /\ agent = "DQN"
    /\ call.refreshed
    /\ target_refresh = 3
    /\ update_freq = 1
    /\ hist.updates >= 2
    /\ target_params = net_params

\* C3 (as claimed): between two consecutive refreshes of target_params
\* exactly target_refresh network updates are executed.
C3_RefreshEveryNUpdates ==
    (agent = "DQN" /\ hist.gap # 0) => hist.gap = target_refresh

\* C4 (as amended): a call that executes a network update replaces params
\* and optimizer state together, and target_params is then replaced by the
\* new params when steps is a multiple of target_refresh (DQN) and left as
\* it was otherwise; a skipped call (off-cadence, or occupancy not above
\* batch_size) leaves all three unchanged.
C4_Atomic ==
    [][LET ran == steps' % update_freq = 0 /\ TableLen(buffer') > batch_size
       IN /\ ran => /\ net_params' # net_params
                    /\ opt_state' # opt_state
                    /\ target_params' =
                           IF agent = "DQN" /\ steps' % target_refresh = 0
                           THEN net_params' ELSE target_params
          /\ ~ran => /\ net_params' = net_params
                     /\ opt_state' = opt_state
                     /\ target_params' = target_params
      ]_vars

\* C4 as claimed: in every call either params, optimizer state and target
\* params are all three replaced, or all three are left unchanged.
C4_Original ==
    [][\/ /\ net_params' # net_params
          /\ opt_state' # opt_state
          /\ agent = "DQN" => target_params' # target_params
       \/ /\ net_params' = net_params
          /\ opt_state' = opt_state
          /\ target_params' = target_params
      ]_vars

\* an executed DQN update that replaced params and left the target behind
C4_Witness ==
    /\ agent = "DQN"
    /\ call.updated
    /\ ~call.refreshed
    /\ target_params # net_params
    /\ opt_state = net_params

\* C5: after k <= C update calls the buffer holds k rows; after C + j calls
\* it holds C rows, the j earliest are gone and the C latest are kept; the
\* occupancy never exceeds C.
C5_Ring ==
    LET k == TableLen(buffer)
    IN /\ k = Min(steps, buffer_size)
       /\ k <= buffer_size
       /\ {buffer.rows[i].n : i \in 1 .. k} = (steps - k + 1) .. steps

\* two rows of a buffer of at least two have been overwritten
C5_Witness ==
    /\ buffer_size >= 2
    /\ steps = buffer_size + 2
    /\ TableLen(buffer) = buffer_size

\* the transitions (agent, reward, discount, next state) whose bootstrap
\* target equals the reward for every vector of values the network can give
\* for the next state (and every exploration rate, in qc_loss)
TargetIsReward ==
    UNION {IF \A qp \in NetValues(c[4]) :
                 IF c[1] = "DQN"
                 THEN RatEq(q_target(Rat(c[2], 1), Rat(c[3], 1), qp),
                            Rat(c[2], 1))
                 ELSE \A e \in Epsilons :
                         RatEq(qc_target(Rat(c[2], 1), Rat(c[3], 1), qp, e),
                               Rat(c[2], 1))
           THEN {c} ELSE {} :
           c \in {"DQN", "EQRC"} \X Rewards \X Discounts \X (Obs \cup {Rat(0, 1)})}

\* C6: every stored transition with discount 0 has the zero next_state,
\* whatever xp the caller passed (an undefined one included), and the
\* bootstrap target computed for it equals its reward for every vector of
\* values the network can give for its next state.
C6_Terminal ==
    \A i \in 1 .. TableLen(buffer) :
        LET t == buffer.rows[i]
        IN t.gamma = 0 =>
              /\ t.xp = Rat(0, 1)
              /\ <<agent, t.r, t.gamma, t.xp>> \in TargetIsReward

\* the last call passed gamma = 0 with an undefined xp
C6_Witness ==
    /\ steps > 0
    /\ IsNaN(call.xp)
    /\ \E i \in 1 .. TableLen(buffer) :
          /\ buffer.rows[i].n = steps
          /\ buffer.rows[i].gamma = 0
          /\ buffer.rows[i].r = 1

\* the maximizing actions of an action-value vector (none when an entry is
\* NaN: such a vector has no maximum)
Maximizers(q) == {i \in DOMAIN q : \A j \in DOMAIN q : RatLeq(q[j], q[i])}

\* C7: with m tied maxima the greedy distribution puts mass 1/m on each
\* maximizer and 0 elsewhere, the masses sum to 1, and the blended
\* distribution is (1 - epsilon) times that mass plus epsilon / num_actions.
C7_TieBreak ==
    (lossOut.kind = "qc" /\ Maximizers(lossIn.qtp1) # {}) =>
        LET M == Maximizers(lossIn.qtp1)
            m == Cardinality(M)
            en == lossIn.epsilon[1]
            ed == lossIn.epsilon[2]
        IN /\ m >= 1 /\ m <= NumActions
           /\ \A i \in Actions :
                 /\ i \in M => RatEq(lossOut.pi_star[i], Rat(1, m))
                 /\ i \notin M => RatEq(lossOut.pi_star[i], Rat(0, 1))
                 /\ RatEq(lossOut.pi[i],
                          Rat((ed - en) * NumActions * (IF i \in M THEN 1 ELSE 0)
                                  + en * m,
                              ed * m * NumActions))
           /\ RatEq(RatVecSum(lossOut.pi_star), Rat(1, 1))

\* a two-way tie under a proper exploration rate
C7_Witness ==
    /\ lossOut.kind = "qc"
    /\ Cardinality(Maximizers(lossIn.qtp1)) = 2
    /\ lossIn.epsilon = Rat(1, 10)

FirstUpdateStep ==
    CHOOSE s \in 1 .. (batch_size + update_freq + 1) :
        /\ s % update_freq = 0
        /\ Min(s, buffer_size) > batch_size
        /\ \A t \in 1 .. (s - 1) :
              ~(t % update_freq = 0 /\ Min(t, buffer_size) > batch_size)

C10_TargetTracksParams ==
    (agent = "DQN" /\ target_refresh = 1) => target_params = net_params

\* two executed updates on a cadence of two steps
C10_Witness ==
    /\ agent = "DQN"
    /\ target_refresh = 1
    /\ update_freq = 2
    /\ hist.updates >= 2
    /\ call.refreshed

====
